---- MODULE Spec2Model ----
(***************************************************************************)
(* CollabDiskCache (libs/database/src/collab/disk_cache.rs): the facade    *)
(* over the af_collab row store and the embeddings index.                  *)
(*                                                                         *)
(* The row-store accessors (crate::collab), the index writer               *)
(* (crate::index::upsert_collab_embeddings), the decoder                   *)
(* (crate::collab::util::encode_collab_from_bytes) and the error           *)
(* conversions (app_error) are called by the facade but live in other      *)
(* files; they are modelled from their contracts in spec.md sections 4.1,  *)
(* 4.2 and 7.                                                              *)
(***************************************************************************)
EXTENDS Naturals, Sequences, FiniteSets, TLC

\* ------------------------------------------------------------------ domains

ObjectIds == {"o1", "o2", "o3"}

\* The objects callers upsert; "o3" is a key that never gets a row.
KnownIds == {"o1", "o2"}

CollabTypes == {"Document", "Folder"}

\* Raw blob bytes.  A blob is the encoding of an EncodedCollab: one length
\* byte n, then n bytes of state vector, then the document state.
\* <<2, 7>> announces two bytes of state vector and carries one: malformed.
Blobs == {<<0, 7>>, <<1, 7>>, <<2, 7>>}

\* Error kinds of sqlx::Error the facade distinguishes: "row not found",
\* "pool exhausted", and an opaque transport error.
TransportErrors == {"PoolTimedOut", "Io"}

Clients == {"c1", "c2"}

\* QueryCollab: object_id + collab_type
QueriesOver(ids) == [object_id : ids, collab_type : CollabTypes]

Queries == QueriesOver(KnownIds)

\* ------------------------------------------------------------------ values

Ok(v) == [tag |-> "Ok", val |-> v]

Err(e) == [tag |-> "Err", err |-> e]

NoResult == [tag |-> "None"]

NoRow == [kind |-> "none"]

Row(t, b, d) == [kind |-> "row", collab_type |-> t, blob |-> b, deleted |-> d]

NoEntry == [kind |-> "none"]

AppError(kind, detail) == [kind |-> kind, detail |-> detail]

\* RecordNotFound(format!("Can't find the row for query: {:?}", query))
RecordNotFoundQuery(q) == AppError("RecordNotFound", <<"query", q>>)

\* RecordNotFound(format!("Can't find the row for object_id: {}", object_id))
RecordNotFoundObject(oid) == AppError("RecordNotFound", <<"object_id", oid>>)

\* From<sqlx::Error> for AppError, as the facade's `?` and `e.into()` use it:
\* the underlying error is propagated as the store-unavailable kind.
FromSqlx(e) == AppError("StoreUnavailable", e)

\* ------------------------------------------------------------------ decoding

RECURSIVE SubSeqFrom(_, _)
SubSeqFrom(s, i) == IF i > Len(s) THEN <<>> ELSE <<s[i]>> \o SubSeqFrom(s, i + 1)

\* EncodedCollab -> bytes
EncodeCollab(c) == <<Len(c.state_vector)>> \o c.state_vector \o c.doc_state

\* encode_collab_from_bytes: bytes -> EncodedCollab, or DecodeFailed
encode_collab_from_bytes(data) ==
  IF Len(data) >= 1 /\ data[1] <= Len(data) - 1
    THEN Ok([state_vector |-> SubSeq(data, 2, 1 + data[1]),
             doc_state |-> SubSeqFrom(data, 2 + data[1])])
    ELSE Err(AppError("DecodeFailed", data))

\* ------------------------------------------------------------------ state

VARIABLES
  rows,    \* committed af_collab table: object_id -> row or NoRow
  index,   \* committed embeddings index: object_id -> entry or NoEntry
  tx,      \* the caller's transaction (unit of work) and its pending writes
  up,      \* the frame of upsert_collab_with_transaction
  cl       \* per client: the frame of the facade read / delete call it runs

vars == <<rows, index, tx, up, cl>>

\* ------------------------------------------------------------------ row store accessor

\* is_collab_exists: true iff a non-deleted row exists
is_collab_exists(tbl, oid) == tbl[oid].kind = "row" /\ ~tbl[oid].deleted

\* select_blob_from_af_collab: the blob of the active row of that id and type
select_blob_from_af_collab(tbl, ctype, oid) ==
  IF tbl[oid].kind = "row" /\ ~tbl[oid].deleted /\ tbl[oid].collab_type = ctype
    THEN Ok(tbl[oid].blob)
    ELSE Err("RowNotFound")

\* ------------------------------------------------------------------ call frames

IdleFrame == [op |-> "none", pc |-> "idle", arg |-> <<>>, attempts |-> 0,
              trace |-> <<>>, result |-> NoResult]

CallEvent(name, answer) == [ev |-> name, ans |-> answer, ms |-> 0]

SleepEvent(ms) == [ev |-> "sleep", ans |-> "", ms |-> ms]

AnswerKind(result) == IF result.tag = "Ok" THEN "Ok" ELSE result.err

\* ------------------------------------------------------------------ get_collab_encoded_from_disk

MAX_ATTEMPTS == 3

ShouldRetry_off_by_one(e, attempts) == attempts < MAX_ATTEMPTS /\ e = "PoolTimedOut"

ShouldRetry_any_error(e, attempts) == attempts < MAX_ATTEMPTS - 1

\* if attempts < MAX_ATTEMPTS - 1 && matches!(e, sqlx::Error::PoolTimedOut)
ShouldRetry(e, attempts) == attempts < MAX_ATTEMPTS - 1 /\ e = "PoolTimedOut"

BackoffMillis_pre_increment(attempts) == 500 * (attempts + 1)

\* Duration::from_millis(500 * attempts as u64), attempts already incremented
BackoffMillis(attempts) == 500 * attempts

FetchMatch_not_found_as_other(f, result) ==
  IF result.tag = "Ok"
    THEN [f EXCEPT !.pc = "done", !.result = encode_collab_from_bytes(result.val)]
  ELSE IF ShouldRetry(result.err, f.attempts)
    THEN [f EXCEPT !.attempts = f.attempts + 1,
                   !.trace = Append(@, SleepEvent(BackoffMillis(f.attempts + 1))),
                   !.pc = "backoff"]
  ELSE [f EXCEPT !.pc = "done", !.result = Err(FromSqlx(result.err))]

FetchMatch_retries_decode_failure(f, result) ==
  IF result.tag = "Ok" /\ encode_collab_from_bytes(result.val).tag = "Ok"
    THEN [f EXCEPT !.pc = "done", !.result = encode_collab_from_bytes(result.val)]
  ELSE IF result.tag = "Ok" /\ f.attempts >= MAX_ATTEMPTS - 1
    THEN [f EXCEPT !.pc = "done", !.result = encode_collab_from_bytes(result.val)]
  ELSE IF result.tag = "Ok" \/ ShouldRetry(result.err, f.attempts)
    THEN [f EXCEPT !.attempts = f.attempts + 1,
                   !.trace = Append(@, SleepEvent(BackoffMillis(f.attempts + 1))),
                   !.pc = "backoff"]
  ELSE IF result.err = "RowNotFound"
    THEN [f EXCEPT !.pc = "done", !.result = Err(RecordNotFoundQuery(f.arg))]
  ELSE [f EXCEPT !.pc = "done", !.result = Err(FromSqlx(result.err))]

\* match result { Ok(data) => ..., Err(e) => match e { RowNotFound => ..., _ => ... } }
FetchMatch(f, result) ==
  IF result.tag = "Ok"
    THEN [f EXCEPT !.pc = "done", !.result = encode_collab_from_bytes(result.val)]
  ELSE IF result.err = "RowNotFound"
    THEN [f EXCEPT !.pc = "done", !.result = Err(RecordNotFoundQuery(f.arg))]
  ELSE IF ShouldRetry(result.err, f.attempts)
    THEN [f EXCEPT !.attempts = f.attempts + 1,
                   !.trace = Append(@, SleepEvent(BackoffMillis(f.attempts + 1))),
                   !.pc = "backoff"]
  ELSE [f EXCEPT !.pc = "done", !.result = Err(FromSqlx(result.err))]

\* The answers the pool can give to one select_blob_from_af_collab call: what
\* the committed table holds, or a transport error.
BlobAnswers(q) ==
  {select_blob_from_af_collab(rows, q.collab_type, q.object_id)}
    \cup {Err(e) : e \in TransportErrors}

\* entry: const MAX_ATTEMPTS; let mut attempts = 0; loop {
FetchStart(c, q) ==
  /\ cl[c].pc = "idle"
  /\ cl' = [cl EXCEPT ![c] = [IdleFrame EXCEPT !.op = "fetch", !.pc = "attempting",
                                               !.arg = q]]
  /\ UNCHANGED <<rows, index, tx, up>>

FetchAttempt_shared_counter(c) ==
  /\ cl[c].op = "fetch" /\ cl[c].pc = "attempting"
  /\ \E result \in BlobAnswers(cl[c].arg), d \in Clients \ {c} :
       cl' = [cl EXCEPT ![c] =
                FetchMatch([cl[c] EXCEPT !.attempts = cl[c].attempts + cl[d].attempts,
                                         !.trace =
                              Append(@, CallEvent("get_blob", AnswerKind(result)))],
                           result)]
  /\ UNCHANGED <<rows, index, tx, up>>

\* one pass of the loop body: the store call, its answer, and the match on it
FetchAttempt(c) ==
  /\ cl[c].op = "fetch" /\ cl[c].pc = "attempting"
  /\ \E result \in BlobAnswers(cl[c].arg) :
       cl' = [cl EXCEPT ![c] =
                FetchMatch([cl[c] EXCEPT !.trace =
                              Append(@, CallEvent("get_blob", AnswerKind(result)))],
                           result)]
  /\ UNCHANGED <<rows, index, tx, up>>

FetchWake_resets_counter(c) ==
  /\ cl[c].op = "fetch" /\ cl[c].pc = "backoff"
  /\ cl' = [cl EXCEPT ![c].pc = "attempting", ![c].attempts = 0]
  /\ UNCHANGED <<rows, index, tx, up>>

\* sleep(...).await completes; continue
FetchWake(c) ==
  /\ cl[c].op = "fetch" /\ cl[c].pc = "backoff"
  /\ cl' = [cl EXCEPT ![c].pc = "attempting"]
  /\ UNCHANGED <<rows, index, tx, up>>

\* the caller takes the result; the frame is gone
Return(c) ==
  /\ cl[c].pc = "done"
  /\ cl' = [cl EXCEPT ![c] = IdleFrame]
  /\ UNCHANGED <<rows, index, tx, up>>

\* ------------------------------------------------------------------ single-call facade operations

\* select_collab_meta_from_af_collab: the metadata of the row of that id and
\* type, deleted or not; None when there is no such row
select_collab_meta_from_af_collab(tbl, oid, ctype) ==
  IF tbl[oid].kind = "row" /\ tbl[oid].collab_type = ctype
    THEN [kind |-> "some",
          meta |-> [object_id |-> oid, collab_type |-> ctype,
                    deleted |-> tbl[oid].deleted]]
    ELSE [kind |-> "none"]

\* UPDATE af_collab SET deleted_at = $2 WHERE oid = $1
soft_delete_removes_row(tbl, oid) == [tbl EXCEPT ![oid] = NoRow]

soft_delete_toggles(tbl, oid) ==
  IF tbl[oid].kind = "row" THEN [tbl EXCEPT ![oid].deleted = ~@] ELSE tbl

soft_delete_purges_deleted(tbl, oid) ==
  IF tbl[oid].kind = "row" /\ tbl[oid].deleted THEN [tbl EXCEPT ![oid] = NoRow]
  ELSE IF tbl[oid].kind = "row" THEN [tbl EXCEPT ![oid].deleted = TRUE]
  ELSE tbl

soft_delete(tbl, oid) ==
  IF tbl[oid].kind = "row" THEN [tbl EXCEPT ![oid].deleted = TRUE] ELSE tbl

Success(collab) == [kind |-> "Success", collab |-> collab, error |-> ""]

Failed(error) == [kind |-> "Failed", collab |-> <<>>, error |-> error]

\* the outcome of one lookup of a batch: the decoded payload, or a failure value
BatchOutcome(tbl, q, transport_failed) ==
  IF transport_failed THEN Failed("StoreUnavailable")
  ELSE IF select_blob_from_af_collab(tbl, q.collab_type, q.object_id).tag = "Err"
    THEN Failed("RecordNotFound")
  ELSE IF encode_collab_from_bytes(tbl[q.object_id].blob).tag = "Err"
    THEN Failed("DecodeFailed")
  ELSE Success(encode_collab_from_bytes(tbl[q.object_id].blob).val)

BatchKeys(queries) == {queries[i].object_id : i \in 1..Len(queries)}

\* batch_select_collab_blob: HashMap<object_id, QueryCollabResult>; every
\* lookup puts its outcome under its object_id (pick names, per key, the
\* lookup whose outcome the map ends up holding)
batch_select_collab_blob(tbl, queries, failed, pick) ==
  [oid \in BatchKeys(queries) |->
     BatchOutcome(tbl, queries[pick[oid]], pick[oid] \in failed)]

BatchPicks(queries) ==
  {pick \in [BatchKeys(queries) -> 1..Len(queries)] :
     \A oid \in BatchKeys(queries) : queries[pick[oid]].object_id = oid}

\* let is_exist = is_collab_exists(object_id, &self.pg_pool).await?; Ok(is_exist)
is_exist_result(answer) ==
  IF answer.tag = "Ok" THEN Ok(answer.val) ELSE Err(FromSqlx(answer.err))

\* match result { None => Err(RecordNotFound(msg)), Some(meta) => Ok(meta) }
get_collab_meta_result(oid, answer) ==
  IF answer.tag = "Err" THEN Err(FromSqlx(answer.err))
  ELSE IF answer.val.kind = "none" THEN Err(RecordNotFoundObject(oid))
  ELSE Ok(answer.val.meta)

batch_get_collab_drop_failed(map) ==
  [oid \in {k \in DOMAIN map : map[k].kind = "Success"} |-> map[oid]]

\* batch_select_collab_blob(&self.pg_pool, queries).await
batch_get_collab_result(map) == map

\* .execute(&self.pg_pool).await?; Ok(())
delete_collab_result(answer) ==
  IF answer.tag = "Ok" THEN Ok(<<>>) ELSE Err(FromSqlx(answer.err))

DoneFrame_retries_pool_timeout(op, arg, call, answer, result) ==
  [IdleFrame EXCEPT !.op = op, !.pc = "done", !.arg = arg,
                    !.trace = IF AnswerKind(answer) = "PoolTimedOut"
                                THEN <<CallEvent(call, "PoolTimedOut"),
                                       SleepEvent(BackoffMillis(1)),
                                       CallEvent(call, "PoolTimedOut")>>
                                ELSE <<CallEvent(call, AnswerKind(answer))>>,
                    !.result = result]

\* the frame of a call that is one store call and the mapping of its answer
DoneFrame(op, arg, call, answer, result) ==
  [IdleFrame EXCEPT !.op = op, !.pc = "done", !.arg = arg,
                    !.trace = <<CallEvent(call, AnswerKind(answer))>>,
                    !.result = result]

IsExist(c, oid) ==
  /\ cl[c].pc = "idle"
  /\ \E answer \in {Ok(is_collab_exists(rows, oid))} \cup {Err(e) : e \in TransportErrors} :
       cl' = [cl EXCEPT ![c] =
                DoneFrame("is_exist", oid, "is_collab_exists", answer,
                          is_exist_result(answer))]
  /\ UNCHANGED <<rows, index, tx, up>>

GetCollabMeta(c, q) ==
  /\ cl[c].pc = "idle"
  /\ \E answer \in {Ok(select_collab_meta_from_af_collab(rows, q.object_id, q.collab_type))}
                     \cup {Err(e) : e \in TransportErrors} :
       cl' = [cl EXCEPT ![c] =
                DoneFrame("get_collab_meta", q, "select_collab_meta", answer,
                          get_collab_meta_result(q.object_id, answer))]
  /\ UNCHANGED <<rows, index, tx, up>>

\* Longest batch in SpecBatch, and in SpecReads.
MaxQueries == 3

MaxReadsQueries == 2

QueryLists(ids, n) == UNION {[1..k -> QueriesOver(ids)] : k \in 0..n}

BatchGetCollab(c, queries) ==
  /\ cl[c].pc = "idle"
  /\ \E failed \in SUBSET (1..Len(queries)), pick \in BatchPicks(queries) :
       cl' = [cl EXCEPT ![c] =
                DoneFrame("batch_get_collab", queries, "batch_select_collab_blob", Ok(<<>>),
                          batch_get_collab_result(
                            batch_select_collab_blob(rows, queries, failed, pick)))]
  /\ UNCHANGED <<rows, index, tx, up>>

\* The UPDATE waits while an open transaction holds an uncommitted write of
\* the same existing row; the call completes once it has run.
RowLocked(oid) ==
  tx.state = "open" /\ tx.rows[oid].kind = "row" /\ rows[oid].kind = "row"

DeleteCollab(c, oid) ==
  /\ cl[c].pc = "idle"
  /\ ~RowLocked(oid)
  /\ \E answer \in {Ok(<<>>)} \cup {Err(e) : e \in TransportErrors} :
       /\ rows' = IF answer.tag = "Ok" THEN soft_delete(rows, oid) ELSE rows
       /\ cl' = [cl EXCEPT ![c] =
                   DoneFrame("delete_collab", oid, "update_deleted_at", answer,
                             delete_collab_result(answer))]
  /\ UNCHANGED <<index, tx, up>>

\* ------------------------------------------------------------------ upsert inputs

\* Workspace identifiers as character strings.  Uuid::parse_str accepts a
\* string of hexadecimal digits of the fixed UUID length; the model scales
\* that length down to two characters.
HexDigits == {"0", "1", "2", "3", "4", "5", "6", "7", "8", "9",
              "a", "b", "c", "d", "e", "f"}

WorkspaceIds == {<<"4", "f">>, <<"4", "z">>}

\* Uuid::parse_str(workspace_id)
ParseUuid(s) ==
  IF Len(s) = 2 /\ \A i \in 1..Len(s) : s[i] \in HexDigits
    THEN Ok(s)
    ELSE Err(AppError("InvalidIdentifier", s))

NoEmbeddings == [kind |-> "none"]

\* params.embeddings: the token cost and the index parameters, which name the
\* object they index
Embeddings(oid) == [kind |-> "some", tokens_consumed |-> 5, params |-> oid]

\* CollabParams: object_id, collab_type, the encoded bytes, optional embeddings
CollabParams(oid, t, b, em) ==
  [object_id |-> oid, collab_type |-> t, encoded_collab_v1 |-> b, embeddings |-> em]

\* The (object, type, bytes) triples callers upsert in the model.
UpsertContents ==
  {<<"o1", "Document", <<0, 7>>>>, <<"o1", "Document", <<1, 7>>>>,
   <<"o1", "Document", <<2, 7>>>>, <<"o1", "Folder", <<1, 7>>>>,
   <<"o2", "Folder", <<0, 7>>>>}

UpsertParams ==
  {CollabParams(x[1], x[2], x[3], em) :
     x \in UpsertContents, em \in {NoEmbeddings}}
  \cup {CollabParams(x[1], x[2], x[3], Embeddings(x[1])) : x \in UpsertContents}

Entry(ws, tokens) == [kind |-> "entry", workspace_id |-> ws, tokens_consumed |-> tokens]

\* ------------------------------------------------------------------ writes inside a unit of work

\* insert_into_af_collab: insert or overwrite the row of params.object_id in
\* the transaction's pending writes; the written row is active
insert_into_af_collab(pending, workspace_id, params) ==
  [pending EXCEPT ![params.object_id] =
     Row(params.collab_type, params.encoded_collab_v1, FALSE)]

\* upsert_collab_embeddings: write or replace the index entry in the
\* transaction's pending writes
upsert_collab_embeddings(pending, workspace_uuid, tokens_consumed, em_params) ==
  [pending EXCEPT ![em_params] = Entry(workspace_uuid, tokens_consumed)]

WriteEvent(what, ok) == [write |-> what, ok |-> ok]

NoParams == [object_id |-> "", collab_type |-> "", encoded_collab_v1 |-> <<>>,
             embeddings |-> NoEmbeddings]

IdleUpsert == [pc |-> "idle", workspace_id |-> <<>>, params |-> NoParams,
               issued |-> <<>>, result |-> NoResult]

NoPending == [rows |-> [o \in ObjectIds |-> NoRow], index |-> [o \in ObjectIds |-> NoEntry]]

NoTx == [state |-> "none", rows |-> NoPending.rows, index |-> NoPending.index]

\* committed table with the pending writes of a transaction applied
Applied(tbl, pending) ==
  [o \in ObjectIds |-> IF pending[o].kind = "none" THEN tbl[o] ELSE pending[o]]

\* ------------------------------------------------------------------ the caller's transaction

\* the caller opens a transaction on the pool
TxBegin ==
  /\ tx.state # "open"
  /\ tx' = [NoTx EXCEPT !.state = "open"]
  /\ up' = IdleUpsert
  /\ UNCHANGED <<rows, index, cl>>

\* the caller commits: every pending write becomes visible at once
TxCommit ==
  /\ tx.state = "open" /\ up.pc \in {"idle", "done"}
  /\ rows' = Applied(rows, tx.rows)
  /\ index' = Applied(index, tx.index)
  /\ tx' = [tx EXCEPT !.state = "committed"]
  /\ UNCHANGED <<up, cl>>

\* the caller rolls back: every pending write is discarded
TxRollback ==
  /\ tx.state = "open" /\ up.pc \in {"idle", "done"}
  /\ tx' = [tx EXCEPT !.state = "rolledback"]
  /\ UNCHANGED <<rows, index, up, cl>>

\* ------------------------------------------------------------------ upsert_collab_with_transaction

\* insert_into_af_collab(transaction, uid, workspace_id, params).await?
AfterWriteRow_error_ignored(f, ok) ==
  [f EXCEPT !.issued = Append(@, WriteEvent("blob", ok)), !.pc = "embeddings"]

AfterWriteRow(f, ok) ==
  IF ok
    THEN [f EXCEPT !.issued = Append(@, WriteEvent("blob", TRUE)), !.pc = "embeddings"]
    ELSE [f EXCEPT !.issued = Append(@, WriteEvent("blob", FALSE)), !.pc = "done",
                   !.result = Err(FromSqlx("Io"))]

UpsertWriteRow_into_pool(workspace_id, params) ==
  /\ tx.state = "open" /\ up.pc = "idle"
  /\ \E ok \in BOOLEAN :
       /\ up' = AfterWriteRow([IdleUpsert EXCEPT !.pc = "write_row",
                                                 !.workspace_id = workspace_id,
                                                 !.params = params], ok)
       /\ rows' = IF ok THEN insert_into_af_collab(rows, workspace_id, params) ELSE rows
  /\ UNCHANGED <<index, tx, cl>>

UpsertWriteRow_skips_without_embeddings(workspace_id, params) ==
  /\ tx.state = "open" /\ up.pc = "idle"
  /\ \E ok \in BOOLEAN :
       /\ up' = AfterWriteRow([IdleUpsert EXCEPT !.pc = "write_row",
                                                 !.workspace_id = workspace_id,
                                                 !.params = params], ok)
       /\ tx' = IF ok /\ params.embeddings.kind = "some"
                  THEN [tx EXCEPT !.rows = insert_into_af_collab(tx.rows, workspace_id, params)]
                  ELSE tx
  /\ UNCHANGED <<rows, index, cl>>

UpsertWriteRow_rolls_back_on_error(workspace_id, params) ==
  /\ tx.state = "open" /\ up.pc = "idle"
  /\ \E ok \in BOOLEAN :
       /\ up' = AfterWriteRow([IdleUpsert EXCEPT !.pc = "write_row",
                                                 !.workspace_id = workspace_id,
                                                 !.params = params], ok)
       /\ tx' = IF ok
                  THEN [tx EXCEPT !.rows = insert_into_af_collab(tx.rows, workspace_id, params)]
                  ELSE [tx EXCEPT !.state = "rolledback"]
  /\ UNCHANGED <<rows, index, cl>>

\* entry of the call and its first statement: the blob write is issued into
\* the caller's transaction (uid, the owner recorded in the row, takes part in
\* no decision of the facade and is left out of the row)
UpsertWriteRow(workspace_id, params) ==
  /\ tx.state = "open" /\ up.pc = "idle"
  /\ \E ok \in BOOLEAN :
       /\ up' = AfterWriteRow([IdleUpsert EXCEPT !.pc = "write_row",
                                                 !.workspace_id = workspace_id,
                                                 !.params = params], ok)
       /\ tx' = IF ok
                  THEN [tx EXCEPT !.rows = insert_into_af_collab(tx.rows, workspace_id, params)]
                  ELSE tx
  /\ UNCHANGED <<rows, index, cl>>

UpsertEmbeddings_undoes_blob_on_error ==
  /\ tx.state = "open" /\ up.pc = "embeddings"
  /\ IF up.params.embeddings.kind = "some"
       THEN IF ParseUuid(up.workspace_id).tag = "Err"
              THEN /\ up' = [up EXCEPT !.pc = "done",
                                       !.result = ParseUuid(up.workspace_id)]
                   /\ tx' = [tx EXCEPT !.rows = NoPending.rows]
              ELSE \E ok \in BOOLEAN :
                     /\ up' = [up EXCEPT
                                 !.pc = "done",
                                 !.issued = Append(@, WriteEvent("index", ok)),
                                 !.result = IF ok THEN Ok(<<>>)
                                            ELSE Err(AppError("IndexWriteFailed", "Io"))]
                     /\ tx' = IF ok
                                THEN [tx EXCEPT !.index =
                                        upsert_collab_embeddings(
                                          tx.index, ParseUuid(up.workspace_id).val,
                                          up.params.embeddings.tokens_consumed,
                                          up.params.embeddings.params)]
                                ELSE [tx EXCEPT !.rows = NoPending.rows]
       ELSE /\ up' = [up EXCEPT !.pc = "done", !.result = Ok(<<>>)]
            /\ tx' = tx
  /\ UNCHANGED <<rows, index, cl>>

UpsertEmbeddings_index_always ==
  /\ tx.state = "open" /\ up.pc = "embeddings"
  /\ up' = [up EXCEPT !.pc = "done", !.issued = Append(@, WriteEvent("index", TRUE)),
                      !.result = Ok(<<>>)]
  /\ tx' = [tx EXCEPT !.index =
               upsert_collab_embeddings(tx.index, up.workspace_id, 0, up.params.object_id)]
  /\ UNCHANGED <<rows, index, cl>>

\* if let Some(em) = &params.embeddings { parse; upsert_collab_embeddings(..).await? }
\* else if Document { log }; Ok(())
UpsertEmbeddings ==
  /\ tx.state = "open" /\ up.pc = "embeddings"
  /\ IF up.params.embeddings.kind = "some"
       THEN IF ParseUuid(up.workspace_id).tag = "Err"
              THEN /\ up' = [up EXCEPT !.pc = "done",
                                       !.result = ParseUuid(up.workspace_id)]
                   /\ tx' = tx
              ELSE \E ok \in BOOLEAN :
                     /\ up' = [up EXCEPT
                                 !.pc = "done",
                                 !.issued = Append(@, WriteEvent("index", ok)),
                                 !.result = IF ok THEN Ok(<<>>)
                                            ELSE Err(AppError("IndexWriteFailed", "Io"))]
                     /\ tx' = IF ok
                                THEN [tx EXCEPT !.index =
                                        upsert_collab_embeddings(
                                          tx.index, ParseUuid(up.workspace_id).val,
                                          up.params.embeddings.tokens_consumed,
                                          up.params.embeddings.params)]
                                ELSE tx
       ELSE /\ up' = [up EXCEPT !.pc = "done", !.result = Ok(<<>>)]
            /\ tx' = tx
  /\ UNCHANGED <<rows, index, cl>>

\* ------------------------------------------------------------------ specifications

\* Store contents left behind by earlier upserts and deletes.
SampleStores ==
  { [o \in ObjectIds |-> IF o = "o1" THEN Row("Document", <<1, 7>>, FALSE) ELSE NoRow],
    [o \in ObjectIds |-> IF o = "o1" THEN Row("Document", <<1, 7>>, FALSE)
                         ELSE IF o = "o2" THEN Row("Folder", <<0, 7>>, FALSE)
                         ELSE NoRow],
    [o \in ObjectIds |-> IF o = "o1" THEN Row("Document", <<2, 7>>, FALSE)
                         ELSE IF o = "o2" THEN Row("Folder", <<0, 7>>, TRUE)
                         ELSE NoRow] }

InitFetch ==
  /\ rows \in SampleStores
  /\ index = [o \in ObjectIds |-> NoEntry]
  /\ tx = NoTx
  /\ up = IdleUpsert
  /\ cl = [c \in Clients |-> IdleFrame]

NextFetch ==
  \/ \E c \in Clients, q \in Queries : FetchStart(c, q)
  \/ \E c \in Clients : FetchAttempt(c)
  \/ \E c \in Clients : FetchWake(c)
  \/ \E c \in Clients : Return(c)

\* Concurrent get_collab_encoded_from_disk invocations over a fixed store.
SpecFetch == InitFetch /\ [][NextFetch]_vars

\* SpecFetch where every store call is answered and every sleep ends.
SpecFetchLive ==
  /\ InitFetch /\ [][NextFetch]_vars
  /\ \A c \in Clients : WF_vars(FetchAttempt(c)) /\ WF_vars(FetchWake(c))

NextBatch ==
  \/ \E qs \in QueryLists(ObjectIds, MaxQueries) : BatchGetCollab("c1", qs)
  \/ Return("c1")

\* batch_get_collab over a fixed store, keys without a row included.
SpecBatch == InitFetch /\ [][NextBatch]_vars

\* Longest batch in SpecCalls.
MaxCallsQueries == 1

NextCalls ==
  \/ \E c \in Clients, oid \in ObjectIds : DeleteCollab(c, oid)
  \/ \E c \in Clients, oid \in ObjectIds : IsExist(c, oid)
  \/ \E c \in Clients, q \in QueriesOver(ObjectIds) : GetCollabMeta(c, q)
  \/ \E c \in Clients, qs \in QueryLists(KnownIds, MaxCallsQueries) : BatchGetCollab(c, qs)
  \/ \E c \in Clients : Return(c)

\* Two clients running the single-call operations over a store nobody
\* upserts to.
SpecCalls == InitFetch /\ [][NextCalls]_vars

\* A freshly created store; one caller running transactions, one client
\* calling the facade over the pool.
Init ==
  /\ rows = [o \in ObjectIds |-> NoRow]
  /\ index = [o \in ObjectIds |-> NoEntry]
  /\ tx = NoTx
  /\ up = IdleUpsert
  /\ cl = [c \in Clients |-> IdleFrame]

\* the caller's side: transactions over the upsert inputs P
WriteSide(P) ==
  \/ TxBegin
  \/ \E w \in WorkspaceIds, p \in P : UpsertWriteRow(w, p)
  \/ UpsertEmbeddings
  \/ TxCommit
  \/ TxRollback

Next ==
  \/ WriteSide(UpsertParams)
  \/ \E oid \in KnownIds : IsExist("c1", oid)
  \/ \E oid \in KnownIds : DeleteCollab("c1", oid)
  \/ Return("c1")

Spec == Init /\ [][Next]_vars

\* The upsert inputs of SpecReads: two well-formed blobs for one object, a
\* malformed one for the other.
ReadsContents ==
  {<<"o1", "Document", <<0, 7>>>>, <<"o1", "Document", <<1, 7>>>>,
   <<"o2", "Folder", <<2, 7>>>>}

ReadsParams == {p \in UpsertParams :
                  <<p.object_id, p.collab_type, p.encoded_collab_v1>> \in ReadsContents}

NextReads ==
  \/ WriteSide(ReadsParams)
  \/ \E oid \in KnownIds : IsExist("c1", oid)
  \/ \E q \in Queries : GetCollabMeta("c1", q)
  \/ \E qs \in QueryLists(KnownIds, MaxReadsQueries) : BatchGetCollab("c1", qs)
  \/ \E oid \in KnownIds : DeleteCollab("c1", oid)
  \/ \E q \in Queries : FetchStart("c1", q)
  \/ FetchAttempt("c1")
  \/ FetchWake("c1")
  \/ Return("c1")

\* Every facade operation of one client against the caller's transactions.
SpecReads == Init /\ [][NextReads]_vars

\* ------------------------------------------------------------------ observations of a call frame

IsCall(e) == e.ev # "sleep"

IsSleep(e) == e.ev = "sleep"

\* the store calls of the invocation, in order
CallsOf(f) == SelectSeq(f.trace, IsCall)

\* the answers the store gave, in order
AnswersOf(f) == [i \in 1..Len(CallsOf(f)) |-> CallsOf(f)[i].ans]

\* the backoff sleeps of the invocation, in milliseconds, in order
SleepsOf(f) == [i \in 1..Len(SelectSeq(f.trace, IsSleep)) |-> SelectSeq(f.trace, IsSleep)[i].ms]

IsPrefix(s, t) == Len(s) <= Len(t) /\ \A i \in 1..Len(s) : s[i] = t[i]

Fetching(c) == cl[c].op = "fetch"

FetchDone(c) == cl[c].op = "fetch" /\ cl[c].pc = "done"

\* ------------------------------------------------------------------ claims: the retry loop

\* C1: one invocation of get_collab_encoded_from_disk never issues more than
\* 3 get_blob calls; when every answer is "pool exhausted" it ends with the
\* store-unavailable error after exactly 3 calls and exactly 2 sleeps.
C1_AtMostThreeAttempts ==
  \A c \in Clients :
    Fetching(c) =>
      /\ Len(CallsOf(cl[c])) <= 3
      /\ (/\ cl[c].pc = "done"
          /\ \A i \in 1..Len(AnswersOf(cl[c])) : AnswersOf(cl[c])[i] = "PoolTimedOut")
         => /\ cl[c].result = Err(AppError("StoreUnavailable", "PoolTimedOut"))
            /\ Len(CallsOf(cl[c])) = 3
            /\ Len(SleepsOf(cl[c])) = 2

C1_Witness ==
  \E c \in Clients :
    /\ FetchDone(c)
    /\ AnswersOf(cl[c]) = <<"PoolTimedOut", "PoolTimedOut", "PoolTimedOut">>
    /\ cl[c].result.tag = "Err"

\* C2: after "pool exhausted" on attempts 1 and 2 and bytes on attempt 3 the
\* call returns the decoding of those bytes and has slept exactly 500ms then
\* 1000ms; in every invocation the k-th sleep lasts 500ms x k, each sleep
\* directly follows a pool-exhausted answer and is directly followed by the
\* next attempt, and the sleeps are a prefix of <<500, 1000>>.
C2_LinearBackoff ==
  \A c \in Clients :
    Fetching(c) =>
      /\ (cl[c].pc = "done" /\ AnswersOf(cl[c]) = <<"PoolTimedOut", "PoolTimedOut", "Ok">>)
         => /\ SleepsOf(cl[c]) = <<500, 1000>>
            /\ cl[c].result = encode_collab_from_bytes(rows[cl[c].arg.object_id].blob)
            /\ Len(CallsOf(cl[c])) = 3
      /\ \A k \in 1..Len(SleepsOf(cl[c])) : SleepsOf(cl[c])[k] = 500 * k
      /\ IsPrefix(SleepsOf(cl[c]), <<500, 1000>>)
      /\ \A i \in 1..Len(cl[c].trace) :
           IsSleep(cl[c].trace[i]) =>
             /\ i > 1
             /\ cl[c].trace[i - 1] = CallEvent("get_blob", "PoolTimedOut")
             /\ IF i < Len(cl[c].trace)
                  THEN cl[c].trace[i + 1].ev = "get_blob"
                  ELSE cl[c].pc \in {"backoff", "attempting"}
      /\ (cl[c].pc = "backoff") =>
           (Len(cl[c].trace) > 0 /\ IsSleep(cl[c].trace[Len(cl[c].trace)]))

C2_Witness ==
  \E c \in Clients :
    /\ FetchDone(c)
    /\ AnswersOf(cl[c]) = <<"PoolTimedOut", "PoolTimedOut", "Ok">>
    /\ cl[c].result.tag = "Ok"
    /\ SleepsOf(cl[c]) = <<500, 1000>>

\* C3: a "row not found" answer, on the first or on a later attempt, is the
\* last event of the invocation: the call is over with RecordNotFound, no
\* sleep and no get_blob call follows; on the first attempt there is no sleep
\* at all.
C3_NotFoundIsTerminal ==
  \A c \in Clients :
    Fetching(c) =>
      \A i \in 1..Len(cl[c].trace) :
        cl[c].trace[i] = CallEvent("get_blob", "RowNotFound") =>
          /\ i = Len(cl[c].trace)
          /\ cl[c].pc = "done"
          /\ cl[c].result = Err(AppError("RecordNotFound", <<"query", cl[c].arg>>))
          /\ (i = 1 => SleepsOf(cl[c]) = <<>>)

C3_Witness ==
  \E c, d \in Clients :
    /\ FetchDone(c) /\ FetchDone(d)
    /\ AnswersOf(cl[c]) = <<"RowNotFound">>
    /\ cl[c].result.err.kind = "RecordNotFound"
    /\ AnswersOf(cl[d]) = <<"PoolTimedOut", "RowNotFound">>
    /\ cl[d].result.err.kind = "RecordNotFound"

\* C4: a get_blob error that is neither "row not found" nor "pool exhausted"
\* is the last event of the invocation, which ends with that error as
\* store-unavailable, whatever the attempt number; every answer that is
\* followed by another attempt is "pool exhausted".
C4_OnlyPoolExhaustionRetried ==
  \A c \in Clients :
    Fetching(c) =>
      \A i \in 1..Len(cl[c].trace) :
        IsCall(cl[c].trace[i]) =>
          /\ cl[c].trace[i].ans \notin {"Ok", "RowNotFound", "PoolTimedOut"} =>
               /\ i = Len(cl[c].trace)
               /\ cl[c].pc = "done"
               /\ cl[c].result = Err(AppError("StoreUnavailable", cl[c].trace[i].ans))
          /\ i < Len(cl[c].trace) => cl[c].trace[i].ans = "PoolTimedOut"

C4_Witness ==
  \E c, d \in Clients :
    /\ FetchDone(c) /\ FetchDone(d)
    /\ AnswersOf(cl[c]) = <<"Io">>
    /\ AnswersOf(cl[d]) = <<"PoolTimedOut", "PoolTimedOut", "Io">>
    /\ cl[d].result = Err(AppError("StoreUnavailable", "Io"))

\* ------------------------------------------------------------------ claims: the transactional upsert

\* a call of client c completes in this step
Completes(c) == cl[c].pc # "done" /\ cl'[c].pc = "done"

\* the answer of the store call that ended the call of client c
FinalAnswer(c) == cl'[c].trace[Len(cl'[c].trace)].ans

\* C5: an index write is issued only directly after the blob write of the
\* same upsert has been issued and has succeeded; after a failed blob write
\* no index write is issued; a pending or committed index entry always has
\* its row.
C5_IndexOnlyAfterBlob ==
  /\ \A i \in 1..Len(up.issued) :
       up.issued[i].write = "index" =>
         /\ i > 1
         /\ up.issued[i - 1] = WriteEvent("blob", TRUE)
  /\ (\E i \in 1..Len(up.issued) : up.issued[i] = WriteEvent("blob", FALSE))
       => \A j \in 1..Len(up.issued) : up.issued[j].write # "index"
  /\ \A o \in ObjectIds :
       /\ tx.index[o].kind = "entry" => tx.rows[o].kind = "row"
       /\ index[o].kind = "entry" => rows[o].kind = "row"

C5_Witness ==
  /\ tx.state = "committed"
  /\ up.issued = <<WriteEvent("blob", TRUE), WriteEvent("index", TRUE)>>
  /\ index[up.params.object_id].kind = "entry"
  /\ rows[up.params.object_id].kind = "row"

\* C6: the writes of an upsert stay out of the committed tables while the
\* transaction is open, a rollback leaves the committed tables as they were,
\* a commit makes the pending row and the pending index entry visible in the
\* same step, and every read over the pool reports committed content only:
\* no row where none is committed, and no bytes but the committed ones.
C6_AtomicUpsert ==
  [][/\ (tx.state = "open" /\ tx'.state = "open" /\ <<tx, up>>' # <<tx, up>>)
          => (rows' = rows /\ index' = index)
     /\ (tx.state = "open" /\ tx'.state = "rolledback")
          => (rows' = rows /\ index' = index)
     /\ (tx.state = "open" /\ tx'.state = "committed")
          => \A o \in ObjectIds :
               /\ rows'[o] = IF tx.rows[o].kind = "row" THEN tx.rows[o] ELSE rows[o]
               /\ index'[o] = IF tx.index[o].kind = "entry" THEN tx.index[o] ELSE index[o]
     /\ \A c \in Clients :
          Completes(c) =>
            /\ (cl'[c].op = "is_exist" /\ cl'[c].result.tag = "Ok"
                  /\ rows[cl'[c].arg].kind = "none")
                 => cl'[c].result.val = FALSE
            /\ (cl'[c].op = "get_collab_meta" /\ cl'[c].result.tag = "Ok")
                 => rows[cl'[c].arg.object_id].kind = "row"
            /\ (cl'[c].op = "fetch" /\ cl'[c].result.tag = "Ok")
                 => /\ rows[cl'[c].arg.object_id].kind = "row"
                    /\ EncodeCollab(cl'[c].result.val) = rows[cl'[c].arg.object_id].blob
            /\ cl'[c].op = "batch_get_collab"
                 => \A k \in DOMAIN cl'[c].result :
                      cl'[c].result[k].kind = "Success"
                        => /\ rows[k].kind = "row"
                           /\ EncodeCollab(cl'[c].result[k].collab) = rows[k].blob
    ]_vars

C6_Witness ==
  /\ tx.state = "rolledback"
  /\ \E o \in ObjectIds :
       /\ tx.rows[o].kind = "row" /\ tx.index[o].kind = "entry"
       /\ rows[o].kind = "none" /\ index[o].kind = "none"
       /\ FetchDone("c1") /\ cl["c1"].arg.object_id = o
       /\ cl["c1"].arg.collab_type = tx.rows[o].collab_type
       /\ cl["c1"].result.tag = "Err" /\ cl["c1"].result.err.kind = "RecordNotFound"

\* C7: when the call returns InvalidIdentifier, no write has been issued into
\* the unit of work.
C7_ParseBeforeAnyWrite ==
  (up.pc = "done" /\ up.result.tag = "Err" /\ up.result.err.kind = "InvalidIdentifier")
    => (up.issued = <<>> /\ tx.rows = NoPending.rows /\ tx.index = NoPending.index)

\* ------------------------------------------------------------------ claims: delete, batch, round trip

\* C8: a successful delete_collab of an active row keeps the row and marks it
\* deleted, touching nothing else; on a row marked deleted is_exist answers
\* false, get_collab_encoded_from_disk fails with RecordNotFound, and the
\* metadata lookup still finds the row, marked deleted.
C8_SoftDelete ==
  [][\A c \in Clients :
       Completes(c) =>
         /\ (cl'[c].op = "delete_collab" /\ cl'[c].result.tag = "Ok"
               /\ rows[cl'[c].arg].kind = "row" /\ ~rows[cl'[c].arg].deleted)
              => /\ rows'[cl'[c].arg] = [rows[cl'[c].arg] EXCEPT !.deleted = TRUE]
                 /\ \A o \in ObjectIds \ {cl'[c].arg} : rows'[o] = rows[o]
         /\ (cl'[c].op = "is_exist" /\ FinalAnswer(c) \notin TransportErrors
               /\ rows[cl'[c].arg].kind = "row" /\ rows[cl'[c].arg].deleted)
              => cl'[c].result = Ok(FALSE)
         /\ (cl'[c].op = "fetch" /\ FinalAnswer(c) \notin TransportErrors
               /\ rows[cl'[c].arg.object_id].kind = "row"
               /\ rows[cl'[c].arg.object_id].deleted)
              => /\ cl'[c].result.tag = "Err"
                 /\ cl'[c].result.err.kind = "RecordNotFound"
         /\ (cl'[c].op = "get_collab_meta" /\ FinalAnswer(c) \notin TransportErrors
               /\ rows[cl'[c].arg.object_id].kind = "row"
               /\ rows[cl'[c].arg.object_id].deleted
               /\ rows[cl'[c].arg.object_id].collab_type = cl'[c].arg.collab_type)
              => /\ cl'[c].result.tag = "Ok"
                 /\ cl'[c].result.val.deleted
    ]_vars

C8_Witness ==
  /\ FetchDone("c1")
  /\ rows[cl["c1"].arg.object_id].kind = "row"
  /\ rows[cl["c1"].arg.object_id].deleted
  /\ rows[cl["c1"].arg.object_id].collab_type = cl["c1"].arg.collab_type
  /\ AnswersOf(cl["c1"]) = <<"RowNotFound">>
  /\ cl["c1"].result.err.kind = "RecordNotFound"

BatchDone(c) == cl[c].op = "batch_get_collab" /\ cl[c].pc = "done"

DistinctKeys(qs) ==
  \A i, j \in 1..Len(qs) : qs[i].object_id = qs[j].object_id => i = j

\* the map entry e is an outcome of the lookup q against the committed table
OutcomeOf(e, q) ==
  /\ e.kind \in {"Success", "Failed"}
  /\ e.kind = "Success"
       => /\ select_blob_from_af_collab(rows, q.collab_type, q.object_id).tag = "Ok"
          /\ EncodeCollab(e.collab) = rows[q.object_id].blob
  /\ e.kind = "Failed"
       => e.error \in {"RecordNotFound", "DecodeFailed", "StoreUnavailable"}
  /\ e.error = "RecordNotFound"
       => select_blob_from_af_collab(rows, q.collab_type, q.object_id).tag = "Err"
  /\ select_blob_from_af_collab(rows, q.collab_type, q.object_id).tag = "Err"
       => e.kind = "Failed"

\* C9 as stated: the map has exactly one entry per input query, for every
\* list of queries.
C9_OneEntryPerQuery ==
  \A c \in Clients :
    BatchDone(c) => Cardinality(DOMAIN cl[c].result) = Len(cl[c].arg)

\* C9 as amended: the map has exactly one entry per distinct object_id among
\* the queries, each entry the outcome of a query with that object_id; when
\* the object_ids are pairwise distinct that is one entry per query, a failed
\* lookup yields a failure value under its own key only, and no entry is
\* missing.
C9_OneEntryPerKey ==
  \A c \in Clients :
    BatchDone(c) =>
      /\ DOMAIN cl[c].result = BatchKeys(cl[c].arg)
      /\ \A k \in DOMAIN cl[c].result :
           \E i \in 1..Len(cl[c].arg) :
             cl[c].arg[i].object_id = k /\ OutcomeOf(cl[c].result[k], cl[c].arg[i])
      /\ DistinctKeys(cl[c].arg) =>
           /\ Cardinality(DOMAIN cl[c].result) = Len(cl[c].arg)
           /\ \A i \in 1..Len(cl[c].arg) :
                OutcomeOf(cl[c].result[cl[c].arg[i].object_id], cl[c].arg[i])

C9_Witness ==
  /\ BatchDone("c1")
  /\ Len(cl["c1"].arg) = 3
  /\ cl["c1"].arg[1].object_id = "o1"
  /\ cl["c1"].arg[2].object_id = "o3"
  /\ cl["c1"].arg[3].object_id = "o2"
  /\ cl["c1"].result["o1"].kind = "Success"
  /\ cl["c1"].result["o3"] = Failed("RecordNotFound")
  /\ cl["c1"].result["o2"].kind = "Success"

\* C10: a fetch whose store call is answered after an upsert of well-formed
\* bytes was committed, with no later write or delete of that object, for the
\* same object_id and collab_type, returns a collab whose encoding is exactly
\* the bytes of that last committed upsert.
C10_RoundTrip ==
  [][\A c \in Clients :
       (/\ Completes(c) /\ cl'[c].op = "fetch"
        /\ FinalAnswer(c) \notin TransportErrors
        /\ tx.state = "committed" /\ up.result.tag = "Ok"
        /\ cl'[c].arg.object_id = up.params.object_id
        /\ cl'[c].arg.collab_type = up.params.collab_type
        /\ ~(rows[up.params.object_id].kind = "row" /\ rows[up.params.object_id].deleted)
        /\ encode_collab_from_bytes(up.params.encoded_collab_v1).tag = "Ok")
       => /\ cl'[c].result.tag = "Ok"
          /\ EncodeCollab(cl'[c].result.val) = up.params.encoded_collab_v1
    ]_vars

C10_Witness ==
  /\ tx.state = "committed" /\ up.result.tag = "Ok"
  /\ FetchDone("c1")
  /\ cl["c1"].arg.object_id = up.params.object_id
  /\ cl["c1"].arg.collab_type = up.params.collab_type
  /\ up.params.encoded_collab_v1 = <<1, 7>>
  /\ cl["c1"].result.tag = "Ok"
  /\ EncodeCollab(cl["c1"].result.val) = <<1, 7>>
  /\ rows[up.params.object_id].blob = <<1, 7>>

\* ------------------------------------------------------------------ claims: upsert without embeddings

\* C11: every step of an upsert whose params carry no embeddings leaves the
\* pending and the committed index as they were; the call issues the blob
\* write and nothing else, and it returns success exactly when the blob write
\* succeeded, for collab_type Document and for the other collab types alike.
C11_NoEmbeddingsNoIndexWrite ==
  [][(up' # up /\ up'.pc # "idle" /\ up'.params.embeddings.kind = "none")
       => /\ index' = index
          /\ tx'.index = tx.index
          /\ \A i \in 1..Len(up'.issued) : up'.issued[i].write = "blob"
          /\ up'.pc = "done"
               => /\ Len(up'.issued) = 1
                  /\ up'.result = IF up'.issued[1].ok THEN Ok(<<>>) ELSE Err(FromSqlx("Io"))
                  /\ up'.issued[1].ok
                       => tx'.rows[up'.params.object_id]
                            = Row(up'.params.collab_type, up'.params.encoded_collab_v1, FALSE)
    ]_vars

C11_Witness ==
  /\ tx.state = "committed" /\ up.pc = "done"
  /\ up.params.embeddings.kind = "none" /\ up.params.collab_type = "Folder"
  /\ up.result = Ok(<<>>) /\ up.issued = <<WriteEvent("blob", TRUE)>>
  /\ rows[up.params.object_id].kind = "row" /\ index[up.params.object_id].kind = "none"
  /\ rows["o1"].kind = "row" /\ rows["o1"].collab_type = "Document"
  /\ index["o1"].kind = "none"

\* ------------------------------------------------------------------ claims: repeated delete

DeleteDone(c) == cl[c].op = "delete_collab" /\ cl[c].pc = "done"

\* C12: a delete_collab call the store executes returns success whether the
\* row is active, already marked deleted or absent; it creates no row, leaves
\* an absent or already deleted row exactly as it was, and a row that was
\* there is still there afterwards, marked deleted, with its content.
C12_DeleteIdempotent ==
  [][\A c \in Clients :
       (Completes(c) /\ cl'[c].op = "delete_collab" /\ FinalAnswer(c) = "Ok")
         => /\ cl'[c].result = Ok(<<>>)
            /\ rows'[cl'[c].arg].kind = rows[cl'[c].arg].kind
            /\ rows[cl'[c].arg].kind = "row"
                 => rows'[cl'[c].arg] = [rows[cl'[c].arg] EXCEPT !.deleted = TRUE]
            /\ (rows[cl'[c].arg].kind = "none" \/ rows[cl'[c].arg].deleted)
                 => rows' = rows
            /\ \A o \in ObjectIds \ {cl'[c].arg} : rows'[o] = rows[o]
    ]_vars

C12_Witness ==
  /\ DeleteDone("c1") /\ DeleteDone("c2")
  /\ cl["c1"].arg = "o1" /\ cl["c2"].arg = "o1"
  /\ cl["c1"].result = Ok(<<>>) /\ cl["c2"].result = Ok(<<>>)
  /\ rows["o1"].kind = "row" /\ rows["o1"].deleted
  /\ rows["o3"].kind = "none"

\* ------------------------------------------------------------------ claims: ownership of the unit of work

\* a step of upsert_collab_with_transaction
UpsertStep == up' # up /\ up'.pc # "idle"

\* C13: every step of upsert_collab_with_transaction, on the success path and
\* on each error exit, runs in an open transaction and leaves it open, with
\* the committed tables untouched; the transaction is ended only by a step of
\* the caller.
C13_FacadeNeverEndsTransaction ==
  [][/\ UpsertStep
          => /\ tx.state = "open" /\ tx'.state = "open"
             /\ rows' = rows /\ index' = index
     /\ tx'.state # tx.state => ~UpsertStep
    ]_vars

C13_Witness ==
  /\ up.pc = "done" /\ tx.state = "open"
  /\ up.result = Err(AppError("IndexWriteFailed", "Io"))
  /\ up.issued = <<WriteEvent("blob", TRUE), WriteEvent("index", FALSE)>>
  /\ tx.rows[up.params.object_id].kind = "row"

\* ------------------------------------------------------------------ claims: decode failures, single-call operations

\* C14: a get_blob answer that carries bytes is the last event of the
\* invocation: no sleep and no further get_blob call follows, and the result
\* is the decoding of those bytes, the collab or DecodeFailed, whatever the
\* attempt number.
C14_DecodeFailureNotRetried ==
  \A c \in Clients :
    Fetching(c) =>
      \A i \in 1..Len(cl[c].trace) :
        cl[c].trace[i] = CallEvent("get_blob", "Ok") =>
          /\ i = Len(cl[c].trace)
          /\ cl[c].pc = "done"
          /\ cl[c].result = encode_collab_from_bytes(rows[cl[c].arg.object_id].blob)
          /\ cl[c].result.tag = "Err"
               => cl[c].result.err = AppError("DecodeFailed", rows[cl[c].arg.object_id].blob)
          /\ cl[c].result.tag = "Ok"
               => EncodeCollab(cl[c].result.val) = rows[cl[c].arg.object_id].blob

C14_Witness ==
  \E c, d \in Clients :
    /\ FetchDone(c) /\ FetchDone(d)
    /\ AnswersOf(cl[c]) = <<"PoolTimedOut", "Ok">>
    /\ SleepsOf(cl[c]) = <<500>>
    /\ cl[c].result = Err(AppError("DecodeFailed", <<2, 7>>))
    /\ AnswersOf(cl[d]) = <<"Ok">>
    /\ cl[d].result = Err(AppError("DecodeFailed", <<2, 7>>))

SingleCallOps == {"is_exist", "get_collab_meta", "batch_get_collab", "delete_collab"}

\* C15: a frame of is_exist, get_collab_meta, batch_get_collab or
\* delete_collab holds exactly one store call and no sleep and is over, also
\* when the answer is "pool exhausted"; is_exist, get_collab_meta and
\* delete_collab return that error as it is after the one attempt, and
\* get_collab_meta returns RecordNotFound when the store finds no row.
C15_RetryOnlyInFetch ==
  [][\A c \in Clients :
       (cl'[c] # cl[c] /\ cl'[c].op \in SingleCallOps)
         => /\ cl'[c].pc = "done"
            /\ Len(CallsOf(cl'[c])) = 1
            /\ SleepsOf(cl'[c]) = <<>>
            /\ cl'[c].attempts = 0
            /\ (cl'[c].op # "batch_get_collab" /\ FinalAnswer(c) \in TransportErrors)
                 => cl'[c].result = Err(AppError("StoreUnavailable", FinalAnswer(c)))
            /\ (cl'[c].op = "get_collab_meta" /\ FinalAnswer(c) = "Ok"
                   /\ select_collab_meta_from_af_collab(
                        rows, cl'[c].arg.object_id, cl'[c].arg.collab_type).kind = "none")
                 => cl'[c].result = Err(AppError("RecordNotFound",
                                                 <<"object_id", cl'[c].arg.object_id>>))
            /\ (cl'[c].op = "get_collab_meta" /\ cl'[c].result.tag = "Err"
                   /\ cl'[c].result.err.kind = "RecordNotFound")
                 => FinalAnswer(c) = "Ok"
    ]_vars

C15_Witness ==
  /\ cl["c1"].op = "is_exist" /\ cl["c1"].pc = "done"
  /\ cl["c1"].trace = <<CallEvent("is_collab_exists", "PoolTimedOut")>>
  /\ cl["c1"].result = Err(AppError("StoreUnavailable", "PoolTimedOut"))
  /\ cl["c2"].op = "get_collab_meta" /\ cl["c2"].pc = "done"
  /\ cl["c2"].arg.object_id = "o3"
  /\ cl["c2"].trace = <<CallEvent("select_collab_meta", "Ok")>>
  /\ cl["c2"].result.tag = "Err" /\ cl["c2"].result.err.kind = "RecordNotFound"

\* ------------------------------------------------------------------ claims: termination of the retry loop

\* Position of a frame in the loop: Attempting(1), Backoff(1), Attempting(2),
\* Backoff(2), Attempting(3), then the terminal states.
Progress(f) ==
  IF f.pc = "done" THEN 2 * MAX_ATTEMPTS
  ELSE 2 * f.attempts + (IF f.pc = "attempting" THEN 1 ELSE 0)

\* C16: given that store calls are answered and sleeps end, every invocation
\* of get_collab_encoded_from_disk reaches its end with a result, success or
\* failure; each step of the loop moves the frame to a strictly later
\* position, so no position is visited twice, and no invocation goes beyond
\* 3 attempts and 2 backoffs.
C16_FetchTerminates ==
  /\ \A c \in Clients : (Fetching(c) /\ cl[c].pc # "done") ~> FetchDone(c)
  /\ [][\A c \in Clients :
          (Fetching(c) /\ cl'[c].op = "fetch" /\ cl'[c] # cl[c])
            => /\ Progress(cl'[c]) > Progress(cl[c])
               /\ cl'[c].attempts >= cl[c].attempts
       ]_vars
  /\ [](\A c \in Clients :
          Fetching(c) =>
            /\ Len(CallsOf(cl[c])) <= MAX_ATTEMPTS
            /\ Len(SleepsOf(cl[c])) <= MAX_ATTEMPTS - 1
            /\ Progress(cl[c]) \in 1..(2 * MAX_ATTEMPTS)
            /\ cl[c].pc \in {"attempting", "backoff", "done"}
            /\ cl[c].pc = "done" <=> cl[c].result.tag \in {"Ok", "Err"})

C16_Witness ==
  \E c \in Clients :
    /\ FetchDone(c)
    /\ AnswersOf(cl[c]) = <<"PoolTimedOut", "PoolTimedOut", "RowNotFound">>
    /\ SleepsOf(cl[c]) = <<500, 1000>>
    /\ cl[c].attempts = 2
    /\ cl[c].result.tag = "Err"

\* ------------------------------------------------------------------ claims: rows are kept

\* the table as the set of its rows
TableRows(tbl) ==
  {[object_id |-> o, row |-> tbl[o]] : o \in {x \in ObjectIds : tbl[x].kind = "row"}}

FailedAfterBlobWrite ==
  /\ up.pc = "done" /\ up.result.tag = "Err"
  /\ up.result.err.kind \in {"InvalidIdentifier", "IndexWriteFailed"}

\* the row the upsert wrote
WrittenRow == Row(up.params.collab_type, up.params.encoded_collab_v1, FALSE)

IsPoolTimedOut(e) == e = CallEvent("get_blob", "PoolTimedOut")

\* the "pool exhausted" answers the invocation has received
PoolTimeoutsOf(f) == Len(SelectSeq(f.trace, IsPoolTimedOut))

Min(a, b) == IF a <= b THEN a ELSE b

\* C19: with several invocations of get_collab_encoded_from_disk in flight,
\* a step of one leaves the frame of every other as it was, and the counter
\* and the sleeps of an invocation are a function of the answers it received
\* itself: one 500ms x k sleep per pool-exhausted answer of its own, up to 2,
\* and it gives up with that error only on its own third.
C19_AttemptCounterIsLocal ==
  [][\A c \in Clients :
       /\ \A d \in Clients \ {c} : cl'[c] # cl[c] => cl'[d] = cl[d]
       /\ (cl'[c].op = "fetch")
            => /\ cl'[c].attempts = Min(PoolTimeoutsOf(cl'[c]), MAX_ATTEMPTS - 1)
               /\ SleepsOf(cl'[c]) = [k \in 1..cl'[c].attempts |-> 500 * k]
               /\ Len(CallsOf(cl'[c])) <= MAX_ATTEMPTS
               /\ (cl'[c].pc = "done" /\ cl'[c].result.tag = "Err"
                      /\ cl'[c].result.err = FromSqlx("PoolTimedOut"))
                    => PoolTimeoutsOf(cl'[c]) = MAX_ATTEMPTS
    ]_vars

C19_Witness ==
  /\ cl["c1"].op = "fetch" /\ cl["c1"].pc = "backoff" /\ cl["c1"].attempts = 2
  /\ SleepsOf(cl["c1"]) = <<500, 1000>>
  /\ cl["c2"].op = "fetch" /\ cl["c2"].pc = "backoff" /\ cl["c2"].attempts = 1
  /\ SleepsOf(cl["c2"]) = <<500>>
  /\ cl["c1"].arg = cl["c2"].arg

====
